---- MODULE Spec2Model ----
(***************************************************************************)
(* Model of the OBJCLASS CSV ingestion pipeline                            *)
(* (backend/scripts/objclass_parser.py, class OBJCLASSParser) together     *)
(* with the dimension / fact tables it writes (backend/app/models).        *)
(*                                                                         *)
(* The persistent store is a record of tables `db`; the SQLAlchemy session *)
(* of one parser instance is the record `session` (objects added but not   *)
(* yet committed, and whether the session's transaction is unusable).      *)
(* The session is created with autoflush=False (app/database.py:61), so a  *)
(* query never writes pending objects; only commit() does, and commit()    *)
(* writes EVERYTHING pending in the session.  A commit that raises leaves  *)
(* the session's transaction rolled back and inactive until                *)
(* session.rollback() is called; the parser never calls rollback(), so     *)
(* every later query, attribute refresh or commit on that session raises.  *)
(***************************************************************************)
EXTENDS Integers, Sequences, FiniteSets, TLC

(***************************************************************************)
(* Bounds of the model.                                                    *)
(***************************************************************************)
MaxRows == 2      \* rows per CSV file
MaxRuns == 2      \* parser runs on the file, one after the other
MaxFaults == 1    \* commits the store may reject on a usable session, over all runs
MaxTokens == 4    \* tokens per generated header, title, code or function field
MaxFracDigits == 3     \* digits after the "." of a generated amount text
MaxExtraColumns == 2   \* columns of a generated header beside the required ones

(***************************************************************************)
(* Program constants.                                                      *)
(***************************************************************************)
FLUSH_INTERVAL == 100
THOUSANDS == 1000
DEFAULT_FISCAL_YEAR == 2026

(***************************************************************************)
(* Python string primitives on TLA+ strings.                               *)
(***************************************************************************)
CharAt(s, i) == SubSeq(s, i, i)

\* t in s
Contains(s, t) ==
    \E i \in 1..(Len(s) - Len(t) + 1) : SubSeq(s, i, i + Len(t) - 1) = t

\* s.find(t) + 1 (0 when absent)
Find(s, t) ==
    IF Contains(s, t)
    THEN CHOOSE i \in 1..(Len(s) - Len(t) + 1) :
            /\ SubSeq(s, i, i + Len(t) - 1) = t
            /\ \A j \in 1..(i - 1) : SubSeq(s, j, j + Len(t) - 1) # t
    ELSE 0

\* s.rfind(t) + 1 (0 when absent)
RFind(s, t) ==
    IF Contains(s, t)
    THEN CHOOSE i \in 1..(Len(s) - Len(t) + 1) :
            /\ SubSeq(s, i, i + Len(t) - 1) = t
            /\ \A j \in (i + 1)..(Len(s) - Len(t) + 1) : SubSeq(s, j, j + Len(t) - 1) # t
    ELSE 0

RECURSIVE LStrip(_)
LStrip(s) == IF Len(s) > 0 /\ CharAt(s, 1) = " " THEN LStrip(SubSeq(s, 2, Len(s))) ELSE s

RECURSIVE RStrip(_)
RStrip(s) == IF Len(s) > 0 /\ CharAt(s, Len(s)) = " " THEN RStrip(SubSeq(s, 1, Len(s) - 1)) ELSE s

\* s.strip()
Strip(s) == RStrip(LStrip(s))

\* s.replace(c, '') for a one-character c
RECURSIVE RemoveChar(_, _)
RemoveChar(s, c) ==
    IF Len(s) = 0 THEN ""
    ELSE IF CharAt(s, 1) = c THEN RemoveChar(SubSeq(s, 2, Len(s)), c)
    ELSE CharAt(s, 1) \o RemoveChar(SubSeq(s, 2, Len(s)), c)

Digits == "0123456789"
IsDigit(c) == \E i \in 1..10 : CharAt(Digits, i) = c
DigitVal(c) == (CHOOSE i \in 1..10 : CharAt(Digits, i) = c) - 1
AllDigits(s) == \A i \in 1..Len(s) : IsDigit(CharAt(s, i))

RECURSIVE DigitsToNat(_)
DigitsToNat(s) ==
    IF Len(s) = 0 THEN 0
    ELSE DigitsToNat(SubSeq(s, 1, Len(s) - 1)) * 10 + DigitVal(CharAt(s, Len(s)))

RECURSIVE Pow10(_)
Pow10(n) == IF n = 0 THEN 1 ELSE 10 * Pow10(n - 1)

(***************************************************************************)
(* Naturals beyond the machine integer, as little-endian sequences of      *)
(* 15-bit limbs without leading zero limbs; they carry the 53-bit          *)
(* significands of Python floats (IEEE-754 binary64).                      *)
(***************************************************************************)
LIMB == 32768

RECURSIVE BigFromNat(_)
BigFromNat(n) == IF n = 0 THEN <<>> ELSE <<n % LIMB>> \o BigFromNat(n \div LIMB)

RECURSIVE BigToNat(_)
BigToNat(a) == IF a = <<>> THEN 0 ELSE a[1] + LIMB * BigToNat(Tail(a))

\* a * m + carry, for a small m
RECURSIVE BigMulSmall(_, _, _)
BigMulSmall(a, m, carry) ==
    IF a = <<>> THEN BigFromNat(carry)
    ELSE LET t == a[1] * m + carry
         IN  <<t % LIMB>> \o BigMulSmall(Tail(a), m, t \div LIMB)

\* quotient and remainder of a by a small d
RECURSIVE BigDivSmall(_, _)
BigDivSmall(a, d) ==
    IF a = <<>> THEN [q |-> <<>>, r |-> 0]
    ELSE LET hi  == BigDivSmall(Tail(a), d)
             cur == hi.r * LIMB + a[1]
         IN  [q |-> IF hi.q = <<>> /\ cur \div d = 0 THEN <<>> ELSE <<cur \div d>> \o hi.q,
              r |-> cur % d]

RECURSIVE Pow2(_)
Pow2(n) == IF n = 0 THEN 1 ELSE 2 * Pow2(n - 1)

\* a * 2^k, for a > 0
RECURSIVE BigShiftLeft(_, _)
BigShiftLeft(a, k) ==
    IF k >= 15 THEN <<0>> \o BigShiftLeft(a, k - 15) ELSE BigMulSmall(a, Pow2(k), 0)

\* floor(a / 2^k), and whether the division left a remainder
RECURSIVE BigShiftRight(_, _)
BigShiftRight(a, k) ==
    IF a = <<>> THEN [q |-> <<>>, inexact |-> FALSE]
    ELSE IF k >= 15
    THEN LET rest == BigShiftRight(Tail(a), k - 15)
         IN  [q |-> rest.q, inexact |-> rest.inexact \/ a[1] # 0]
    ELSE LET one == BigDivSmall(a, Pow2(k))
         IN  [q |-> one.q, inexact |-> one.r # 0]

\* floor(a / 10^k), and whether the division left a remainder
RECURSIVE BigDivPow10(_, _)
BigDivPow10(a, k) ==
    IF k = 0 THEN [q |-> a, inexact |-> FALSE]
    ELSE LET one  == BigDivSmall(a, 10)
             rest == BigDivPow10(one.q, k - 1)
         IN  IF one.r = 0 THEN rest ELSE [q |-> rest.q, inexact |-> TRUE]

RECURSIVE BigAddOne(_)
BigAddOne(a) ==
    IF a = <<>> THEN <<1>>
    ELSE IF a[1] + 1 < LIMB THEN <<a[1] + 1>> \o Tail(a)
    ELSE <<0>> \o BigAddOne(Tail(a))

RECURSIVE SmallBitLen(_)
SmallBitLen(n) == IF n = 0 THEN 0 ELSE 1 + SmallBitLen(n \div 2)

BigBitLen(a) == IF a = <<>> THEN 0 ELSE 15 * (Len(a) - 1) + SmallBitLen(a[Len(a)])

\* Round to nearest, ties to even: x.q is floor(2 * v) and x.inexact says
\* whether 2 * v has a fractional part; the result is the rounded v.
RoundHalfEven(x) ==
    LET h  == BigDivSmall(x.q, 2)
        up == h.r = 1 /\ (x.inexact \/ (h.q # <<>> /\ h.q[1] % 2 = 1))
    IN  IF up THEN BigAddOne(h.q) ELSE h.q

\* float("num / 10^scale") for num > 0: the binary64 nearest to the decimal,
\* as the significand m (53 bits) and e with value m * 2^(-e).
Binary64(num, scale) ==
    LET n  == BigFromNat(num)
        e0 == 4 * scale
        L0 == BigBitLen(BigDivPow10(BigShiftLeft(n, e0), scale).q)
        e  == e0 + 53 - L0
    IN  [m |-> RoundHalfEven(BigDivPow10(BigShiftLeft(n, e + 1), scale)), e |-> e]

\* x * c in binary64, for a small positive integer c
Binary64Times(x, c) ==
    LET p == BigMulSmall(x.m, c, 0)
        k == BigBitLen(p) - 53
    IN  IF k <= 0 THEN [m |-> p, e |-> x.e]
        ELSE [m |-> RoundHalfEven(BigShiftRight(p, k - 1)), e |-> x.e - k]

\* int(x) for a positive binary64 x: truncation
Binary64Trunc(x) ==
    IF x.e >= 0 THEN BigToNat(BigShiftRight(x.m, x.e).q)
    ELSE BigToNat(BigShiftLeft(x.m, 0 - x.e))

(***************************************************************************)
(* float(str_value) for the texts of the model: an optional sign, then     *)
(* "inf", "nan" or decimal digits with at most one ".".  A finite value is *)
(* the binary64 nearest to sign * num / 10^scale.                          *)
(***************************************************************************)
ParseFloat(s) ==
    LET neg  == Len(s) > 0 /\ CharAt(s, 1) = "-"
        sgn  == Len(s) > 0 /\ CharAt(s, 1) \in {"-", "+"}
        body == IF sgn THEN SubSeq(s, 2, Len(s)) ELSE s
        dot  == Find(body, ".")
        ip   == IF dot = 0 THEN body ELSE SubSeq(body, 1, dot - 1)
        fp   == IF dot = 0 THEN "" ELSE SubSeq(body, dot + 1, Len(body))
    IN  IF body \in {"inf", "Infinity", "infinity", "INF"}
        THEN [kind |-> "inf", neg |-> neg, num |-> 0, scale |-> 0]
        ELSE IF body \in {"nan", "NaN", "NAN"}
        THEN [kind |-> "nan", neg |-> neg, num |-> 0, scale |-> 0]
        ELSE IF AllDigits(ip) /\ AllDigits(fp) /\ Len(ip) + Len(fp) > 0
        THEN [kind |-> "num", neg |-> neg, num |-> DigitsToNat(ip \o fp), scale |-> Len(fp)]
        ELSE [kind |-> "error", neg |-> neg, num |-> 0, scale |-> 0]

(***************************************************************************)
(* A CSV cell as pandas hands it to the parser: missing (NaN) or a text.   *)
(***************************************************************************)
NaN == [na |-> TRUE, text |-> ""]
Cell(t) == [na |-> FALSE, text |-> t]

\* Results of _parse_amount: None, an integer, or a raised exception.
AmountNone == [kind |-> "none", val |-> 0]
AmountInt(n) == [kind |-> "int", val |-> n]
AmountRaise == [kind |-> "raise", val |-> 0]

_parse_amount(value) ==
    IF value.na THEN AmountNone
    ELSE LET str_value == Strip(RemoveChar(RemoveChar(value.text, ","), "$"))
             f == ParseFloat(str_value)
         IN  IF str_value = "" THEN AmountNone
             ELSE IF f.kind = "error" THEN AmountNone      \* ValueError, caught
             ELSE IF f.kind = "nan" THEN AmountNone        \* int(nan): ValueError, caught
             ELSE IF f.kind = "inf" THEN AmountRaise       \* int(inf): OverflowError, not caught
             ELSE LET mag == IF f.num = 0 THEN 0
                             ELSE Binary64Trunc(
                                      Binary64Times(Binary64(f.num, f.scale), THOUSANDS))
                  IN  AmountInt(IF f.neg THEN 0 - mag ELSE mag)

\* A variant of the period extractor that looks for "CY" first.
_extract_period_CYFirst(column_name) ==
    IF Contains(column_name, "CY") THEN "CY"
    ELSE IF Contains(column_name, "PY") THEN "PY"
    ELSE IF Contains(column_name, "BY") THEN "BY"
    ELSE "CY"

_extract_period(column_name) ==
    IF Contains(column_name, "PY") THEN "PY"
    ELSE IF Contains(column_name, "CY") THEN "CY"
    ELSE IF Contains(column_name, "BY") THEN "BY"
    ELSE "CY"

\* re.search(r'20\d{2}', column_name)
YearMatchAt(s, i) ==
    /\ i + 3 <= Len(s)
    /\ SubSeq(s, i, i + 1) = "20"
    /\ IsDigit(CharAt(s, i + 2))
    /\ IsDigit(CharAt(s, i + 3))

\* A variant of the fiscal-year extractor that takes the last match.
_extract_fiscal_year_LastMatch(column_name) ==
    IF \E i \in 1..Len(column_name) : YearMatchAt(column_name, i)
    THEN LET i == CHOOSE k \in 1..Len(column_name) :
                     /\ YearMatchAt(column_name, k)
                     /\ \A j \in (k + 1)..Len(column_name) : ~YearMatchAt(column_name, j)
         IN  DigitsToNat(SubSeq(column_name, i, i + 3))
    ELSE DEFAULT_FISCAL_YEAR

_extract_fiscal_year(column_name) ==
    IF \E i \in 1..Len(column_name) : YearMatchAt(column_name, i)
    THEN LET i == CHOOSE k \in 1..Len(column_name) :
                     /\ YearMatchAt(column_name, k)
                     /\ \A j \in 1..(k - 1) : ~YearMatchAt(column_name, j)
         IN  DigitsToNat(SubSeq(column_name, i, i + 3))
    ELSE DEFAULT_FISCAL_YEAR

\* None is modelled by the text "<None>"
NoAbbreviation == "<None>"

_extract_abbreviation(title) ==
    IF Contains(title, "(") /\ Contains(title, ")")
    THEN LET start == RFind(title, "(")          \* 0-based index of the char after "("
             end   == RFind(title, ")") - 1      \* 0-based index of ")"
         IN  IF start < end
             THEN Strip(SubSeq(title, start + 1, end))
             ELSE NoAbbreviation
    ELSE NoAbbreviation

\* A variant of the composite field parser that splits on the last " - ".
_parse_function_field_LastSeparator(field_value0) ==
    LET field_value == Strip(field_value0)
        p == RFind(field_value, " - ")
    IN  IF p # 0
        THEN [code |-> Strip(SubSeq(field_value, 1, p - 1)),
              name |-> Strip(SubSeq(field_value, p + 3, Len(field_value)))]
        ELSE [code |-> field_value, name |-> field_value]

_parse_function_field(field_value0) ==
    LET field_value == Strip(field_value0)
        p == Find(field_value, " - ")
    IN  IF p # 0
        THEN [code |-> Strip(SubSeq(field_value, 1, p - 1)),
              name |-> Strip(SubSeq(field_value, p + 3, Len(field_value)))]
        ELSE [code |-> field_value, name |-> field_value]

\* A variant of the group code that cuts at the last ".".
GroupCode_LastPeriod(code) ==
    IF Contains(code, ".") THEN SubSeq(code, 1, RFind(code, ".") - 1) ELSE code

\* code.split('.')[0] if '.' in code else code
GroupCode(code) ==
    IF Contains(code, ".") THEN SubSeq(code, 1, Find(code, ".") - 1) ELSE code


(***************************************************************************)
(* Input files.  A row is a function from column name to cell.             *)
(***************************************************************************)
required_columns ==
    <<"OMB Agency Code", "Agency Title",
      "OMB Bureau Code", "Bureau Title",
      "OMB Account", "Account _Title",
      "Default Budget Function", "Default Budget Subfunction",
      "OB Class Code", "OB Class">>

Range(f) == {f[i] : i \in DOMAIN f}

IsAmountColumn(c) == \E year \in {"PY", "CY", "BY"} : Contains(c, year)

\* A variant of the amount-column filter that only knows "PY".
AmountColumns_PYOnly(columns) == SelectSeq(columns, LAMBDA c : Contains(c, "PY"))

\* [col for col in columns if any(year in col for year in ['PY','CY','BY'])]
AmountColumns(columns) == SelectSeq(columns, IsAmountColumn)

\* A variant of the validator that forgets the amount-column check.
validate_csv_structure_NoAmountCheck(columns) ==
    SelectSeq(required_columns, LAMBDA c : c \notin Range(columns)) = <<>>

validate_csv_structure(columns) ==
    LET amount_columns == AmountColumns(columns)
        missing_columns == SelectSeq(required_columns, LAMBDA c : c \notin Range(columns))
    IN  IF missing_columns # <<>> THEN FALSE
        ELSE IF amount_columns = <<>> THEN FALSE
        ELSE TRUE

ValidHeader == required_columns \o <<"PY Amount", "CY Amount">>
HeaderMissingRequired == SubSeq(required_columns, 1, 9) \o <<"PY Amount", "CY Amount">>
HeaderNoAmounts == required_columns
\* The headers of the model, by name.
HeaderTable ==
    [valid |-> ValidHeader,
     missing_required |-> HeaderMissingRequired,
     no_amounts |-> HeaderNoAmounts]

\* Dimension cells of the rows of the model, in the order of required_columns.
\* DimsHomeland has the bureau and account codes of DimsEducation under another
\* agency; DimsPostsecondary has the agency and subfunction codes of
\* DimsEducation with another bureau, function and object class.
DimsEducation ==
    <<"018", "Department of Education (ED)", "10", "Office of Elementary Education",
      "0100", "Salaries and Expenses", "500 - Education", "501 - Training",
      "25.1", "Advisory services">>
DimsHomeland ==
    <<"024", "Department of Homeland Security (DHS)", "10", "Office of the Secretary",
      "0100", "Operations", "500 - Education and Training", "501 - Training",
      "25.1", "Advisory services">>
DimsPostsecondary ==
    <<"018", " Education Department ", "20", "Office of Postsecondary Education",
      "0100", "Salaries and Expenses", "GENERAL", "501 - Training",
      "10", "Personnel compensation">>

MakeRow(d, a) ==
    [c \in Range(ValidHeader) |->
        IF \E i \in 1..10 : required_columns[i] = c
        THEN Cell(d[CHOOSE i \in 1..10 : required_columns[i] = c])
        ELSE IF c = "PY Amount" THEN a[1] ELSE a[2]]

\* The rows of the model, by name: dimension cells with the PY and CY amount
\* cells.
RowTable ==
    [education |-> MakeRow(DimsEducation, <<Cell("1,234.50"), Cell("0")>>),
     homeland_inf |-> MakeRow(DimsHomeland, <<Cell("$2"), Cell("inf")>>),
     homeland |-> MakeRow(DimsHomeland, <<Cell("-3.5"), Cell("7")>>),
     postsecondary |-> MakeRow(DimsPostsecondary, <<NaN, Cell("0.0004")>>)]

Restrict(row, columns) == [c \in Range(columns) |-> row[c]]

RECURSIVE SeqsUpTo(_, _)
SeqsUpTo(S, n) ==
    IF n = 0 THEN {<<>>}
    ELSE LET shorter == SeqsUpTo(S, n - 1)
         IN  shorter \cup {Append(q, x) : q \in {r \in shorter : Len(r) = n - 1}, x \in S}

\* validate_csv_structure and the amount columns of each header of the model
StructureValid == [h \in DOMAIN HeaderTable |-> validate_csv_structure(HeaderTable[h])]
AmountColumnsOf == [h \in DOMAIN HeaderTable |-> AmountColumns(HeaderTable[h])]

\* A three-row file: a valid row with a nonzero PY and a zero CY amount, a row
\* of an agency not met before, and the first row again.
EndToEndFile ==
    [loadable |-> TRUE, header |-> "valid", rows |-> <<"education", "homeland", "education">>]

\* A three-row file whose third row is the first of its agency: the row
\* before it is handled between two periodic commits.
NewAgencyLastFile ==
    [loadable |-> TRUE, header |-> "valid", rows |-> <<"education", "education", "homeland">>]

\* A file that reaches the second periodic commit of the row loop (idx = 0
\* and idx = FLUSH_INTERVAL).
LongFile ==
    [loadable |-> TRUE, header |-> "valid",
     rows |-> [i \in 1..(FLUSH_INTERVAL + 1) |-> "education"]]

\* The files of the model, as the names of their header and rows: a file that
\* pd.read_csv cannot load, tables with the valid header, one-row tables
\* with a header that fails validation, the three-row files and the long file.
Files ==
    {[loadable |-> FALSE, header |-> "valid", rows |-> <<>>], EndToEndFile,
     NewAgencyLastFile, LongFile}
    \cup {[loadable |-> TRUE, header |-> "valid", rows |-> rs] :
             rs \in SeqsUpTo(DOMAIN RowTable, MaxRows)}
    \cup {[loadable |-> TRUE, header |-> h, rows |-> <<r>>] :
             h \in (DOMAIN HeaderTable) \ {"valid"}, r \in DOMAIN RowTable}

\* str(value) of a cell
Str(cell) == IF cell.na THEN "nan" ELSE cell.text

\* validate_objclass.validate_csv_structure on a loaded table df (its columns
\* and its rows): the issues it collects, and whether there are none.
validate_objclass_issues(df) ==
    LET missing_columns == SelectSeq(required_columns, LAMBDA c : c \notin Range(df.columns))
        amount_columns == SelectSeq(df.columns, IsAmountColumn)
        empty_columns == {c \in Range(required_columns) \cap Range(df.columns) :
                             \E i \in DOMAIN df.rows : df.rows[i][c].na}
        long_columns == {c \in {"OMB Agency Code", "OMB Bureau Code",
                                 "Default Budget Function", "OB Class Code"}
                                \cap Range(df.columns) :
                            \E i \in DOMAIN df.rows : Len(Str(df.rows[i][c])) > 20}
    IN  (IF missing_columns # <<>> THEN {<<"Missing required columns", missing_columns>>} ELSE {})
        \cup (IF amount_columns = <<>> THEN {<<"No amount columns found">>} ELSE {})
        \cup {<<"has empty values", c>> : c \in empty_columns}
        \cup {<<"has very long codes", c>> : c \in long_columns}

validate_objclass_validate_csv_structure(df) == validate_objclass_issues(df) = {}


(***************************************************************************)
(* State.                                                                  *)
(***************************************************************************)
VARIABLES
    csv,            \* the file at csv_file_path (names of its header and rows)
    runNo,          \* number of parser instances constructed so far
    pc,             \* position of the current run in process_csv / _process_row
    idx,            \* idx of the row loop (0-based)
    col,            \* position in amount_columns (1-based)
    faults,         \* commits the store has rejected so far
    nextId,         \* next primary key the store hands out
    db,             \* committed rows of every table
    session,        \* self.session: pending objects and transaction state
    cache,          \* the six *_cache dictionaries (key -> entity id)
    import_batch,   \* self.import_batch (the in-memory ImportBatch object)
    stats,          \* self.stats
    raw_data,       \* raw_data of the row being processed
    loc,            \* agency, bureau, account, ... of the row being processed
    result,         \* what process_csv returned
    hist,           \* history: keys resolved and resolver failures (row, resolver) of this
                    \* run, store at run start, earlier results
    call,           \* a field parser applied on its own: function, argument, result
    race            \* two parsers run side by side: the store they share and the
                    \* position, caches and resolved entities of each

\* df = pd.read_csv(self.csv_file_path): the header and the rows of the table
DataFrame ==
    [h \in DOMAIN HeaderTable |->
        [r \in DOMAIN RowTable |-> Restrict(RowTable[r], HeaderTable[h])]]
DfRow(i) == DataFrame[csv.header][csv.rows[i]]

parser_vars == <<csv, runNo, pc, idx, col, faults, nextId, db, session, cache,
                 import_batch, stats, raw_data, loc, result, hist>>

vars == <<parser_vars, call, race>>

\* no field parser is being applied on its own
NoCall == [fn |-> "<none>", arg |-> "", returned |-> FALSE, ret |-> ""]

\* self.import_batch = None
NoBatch ==
    [id |-> 0, total_rows |-> 0, successful_imports |-> 0, failed_imports |-> 0,
     warnings |-> 0, status |-> "<None>", error_log |-> "", end_time |-> FALSE]

NoRaw == [import_batch_id |-> 0, row_number |-> 0, import_status |-> "<None>", error_message |-> ""]

NoLoc == [agency |-> 0, bureau |-> 0, account |-> 0, function |-> 0,
          subfunction |-> 0, object_class |-> 0]

EmptyDict == [k \in {} |-> 0]

EmptyCaches ==
    [agency_cache |-> EmptyDict, bureau_cache |-> EmptyDict, account_cache |-> EmptyDict,
     function_cache |-> EmptyDict, subfunction_cache |-> EmptyDict,
     object_class_cache |-> EmptyDict]

InitStats == [total_rows |-> 0, successful_imports |-> 0, failed_imports |-> 0, warnings |-> 0]

\* SessionLocal(): nothing pending, transaction usable
NewSession == [new_outlays |-> {}, new_raw |-> {}, needs_rollback |-> FALSE]

EmptyDb ==
    [agencies |-> {}, bureaus |-> {}, accounts |-> {}, budget_functions |-> {},
     budget_subfunctions |-> {}, object_classes |-> {}, outlays |-> {},
     raw_import_data |-> {}, import_batches |-> {}]

DATA_SOURCE == "OBJCLASS_2026"

\* A variant of the dictionary store that keeps another id than the one given.
Put_OtherId(d, k, v) == [x \in (DOMAIN d) \cup {k} |-> IF x = k THEN v + 1 ELSE d[x]]

Put(d, k, v) == [x \in (DOMAIN d) \cup {k} |-> IF x = k THEN v ELSE d[x]]

\* The parsers that run side by side, and the resolver calls of a row in the
\* order of _process_row.
Procs == {1, 2}
RaceSteps == <<"agency", "bureau", "account", "function", "subfunction", "object_class">>

\* A parser as constructed, before the first resolver call of its first row.
NewProc ==
    [row |-> 1, step |-> 1, phase |-> "query", state |-> "running",
     cache |-> EmptyCaches, loc |-> NoLoc, failed_at |-> "<None>"]

\* Two parsers constructed against an empty store.
RaceStart == [db |-> EmptyDb, nextId |-> 1, procs |-> [p \in Procs |-> NewProc]]

\* OBJCLASSParser.__init__ against an empty store
Constructed ==
    /\ runNo = 1
    /\ pc = "load"
    /\ idx = 0
    /\ col = 1
    /\ faults = 0
    /\ nextId = 1
    /\ db = EmptyDb
    /\ session = NewSession
    /\ cache = EmptyCaches
    /\ import_batch = NoBatch
    /\ stats = InitStats
    /\ raw_data = NoRaw
    /\ loc = NoLoc
    /\ result = "pending"
    /\ hist = [keys |-> {}, failures |-> {}, start_db |-> EmptyDb, results |-> <<>>]

Init ==
    /\ csv \in Files
    /\ Constructed
    /\ call = NoCall
    /\ race = RaceStart

(***************************************************************************)
(* The store and the session.                                              *)
(***************************************************************************)
\* What a successful commit writes: every pending Outlay and RawImportData,
\* and the current column values of the ImportBatch object ib.
Flush(d, s, ib) ==
    [d EXCEPT !.outlays = @ \cup s.new_outlays,
              !.raw_import_data = @ \cup s.new_raw,
              !.import_batches = IF ib.id = 0 THEN @
                                 ELSE {b \in @ : b.id # ib.id} \cup {ib}]

\* self.session.commit(), where d is db plus the rows just added, violates
\* says that a unique constraint rejects them and f is the number of commits
\* the store has rejected so far.
CommitOutcomes(d, s, ib, violates, f) ==
    IF s.needs_rollback
    THEN {[raised |-> TRUE, faulted |-> FALSE, db |-> db, session |-> s]}
    ELSE IF violates
    THEN {[raised |-> TRUE, faulted |-> FALSE, db |-> db,
           session |-> [s EXCEPT !.needs_rollback = TRUE]]}
    ELSE {[raised |-> FALSE, faulted |-> FALSE, db |-> Flush(d, s, ib),
           session |-> [s EXCEPT !.new_outlays = {}, !.new_raw = {}]]}
         \cup (IF f < MaxFaults
               THEN {[raised |-> TRUE, faulted |-> TRUE, db |-> db,
                      session |-> [s EXCEPT !.needs_rollback = TRUE]]}
               ELSE {})

\* Outcomes of a resolver.
Resolved(id, d, s, c, n) ==
    [raised |-> FALSE, faulted |-> FALSE, ret |-> id, db |-> d, session |-> s,
     cache |-> c, nextId |-> n]

Raised(faulted, s) ==
    [raised |-> TRUE, faulted |-> faulted, ret |-> 0, db |-> db, session |-> s,
     cache |-> cache, nextId |-> nextId]

\* Rows behind the entity ids held by the parser.
AgencyOf(id) == CHOOSE a \in db.agencies : a.id = id
BureauOf(id) == CHOOSE b \in db.bureaus : b.id = id
AccountOf(id) == CHOOSE a \in db.accounts : a.id = id
FunctionOf(id) == CHOOSE f \in db.budget_functions : f.id = id
SubfunctionOf(id) == CHOOSE f \in db.budget_subfunctions : f.id = id
ObjectClassOf(id) == CHOOSE o \in db.object_classes : o.id = id

\* session.query(...).filter_by(...): the rows first() may return
\* A variant of the agency lookup that finds nothing in the store.
QueryAgency_Miss(code) == {}

QueryAgency(code) == {a \in db.agencies : a.omb_code = code}
\* A variant of the bureau lookup that never consults the store.
QueryBureau_CacheOnly(agency_id, code) == {}

QueryBureau(agency_id, code) ==
    {b \in db.bureaus : b.agency_id = agency_id /\ b.omb_code = code}
QueryAccount(bureau_id, code) ==
    {a \in db.accounts : a.bureau_id = bureau_id /\ a.omb_account_code = code}
QueryFunction(code) == {f \in db.budget_functions : f.code = code}
QuerySubfunction(function_id, code) ==
    {f \in db.budget_subfunctions : f.function_id = function_id /\ f.code = code}
QueryObjectClass(code) == {o \in db.object_classes : o.code = code}


(***************************************************************************)
(* Dimension resolver.  The six get_or_create_* methods share one shape:   *)
(* cache lookup, store query, else construct + add + commit, then cache.   *)
(* reads_parent: the method builds its cache key from an attribute of the  *)
(* parent entity, which is reloaded from the store (objects are expired by *)
(* every commit) and so raises on an unusable session.                     *)
(***************************************************************************)
GetOrCreate(cname, cache_key, reads_parent, found, entity, tname, violates) ==
    IF reads_parent /\ session.needs_rollback
    THEN {Raised(FALSE, session)}
    ELSE IF cache_key \in DOMAIN cache[cname]
    THEN {Resolved(cache[cname][cache_key], db, session, cache, nextId)}
    ELSE IF session.needs_rollback
    THEN {Raised(FALSE, session)}
    ELSE IF found # {}
    THEN {Resolved(e.id, db, session,
                   [cache EXCEPT ![cname] = Put(@, cache_key, e.id)], nextId) : e \in found}
    ELSE {IF c.raised
          THEN Raised(c.faulted, c.session)
          ELSE Resolved(entity.id, c.db, c.session,
                        [cache EXCEPT ![cname] = Put(@, cache_key, entity.id)], nextId + 1)
          : c \in CommitOutcomes([db EXCEPT ![tname] = @ \cup {entity}],
                                 session, import_batch, violates, faults)}

get_or_create_agency(code, title) ==
    GetOrCreate("agency_cache", code, FALSE, QueryAgency(code),
                [id |-> nextId, omb_code |-> code, title |-> Strip(title),
                 abbreviation |-> _extract_abbreviation(title)],
                "agencies",
                \E a \in db.agencies : a.omb_code = code)

get_or_create_bureau(agency, code, title) ==
    GetOrCreate("bureau_cache", AgencyOf(agency).omb_code \o ":" \o code, TRUE,
                QueryBureau(agency, code),
                [id |-> nextId, agency_id |-> agency, omb_code |-> code,
                 title |-> Strip(title), abbreviation |-> _extract_abbreviation(title)],
                "bureaus", FALSE)

get_or_create_account(bureau, code, title) ==
    GetOrCreate("account_cache", BureauOf(bureau).omb_code \o ":" \o code, TRUE,
                QueryAccount(bureau, code),
                [id |-> nextId, bureau_id |-> bureau, omb_account_code |-> code,
                 title |-> Strip(title), description |-> Strip(title)],
                "accounts", FALSE)

get_or_create_function(code, title) ==
    GetOrCreate("function_cache", code, FALSE, QueryFunction(code),
                [id |-> nextId, code |-> code, title |-> Strip(title),
                 description |-> Strip(title)],
                "budget_functions",
                \E f \in db.budget_functions : f.code = code)

get_or_create_subfunction(function, code, title) ==
    GetOrCreate("subfunction_cache", FunctionOf(function).code \o ":" \o code, TRUE,
                QuerySubfunction(function, code),
                [id |-> nextId, function_id |-> function, code |-> code,
                 title |-> Strip(title), description |-> Strip(title)],
                "budget_subfunctions", FALSE)

\* obj_class = ObjectClass(code=..., title=..., group_code=..., description=...)
NewObjectClass(id, code, title) ==
    [id |-> id, code |-> code, title |-> Strip(title),
     group_code |-> GroupCode(code), description |-> Strip(title)]

get_or_create_object_class(code, title) ==
    GetOrCreate("object_class_cache", code, FALSE, QueryObjectClass(code),
                NewObjectClass(nextId, code, title),
                "object_classes",
                \E o \in db.object_classes : o.code = code)

(***************************************************************************)
(* process_csv, up to the row loop.                                        *)
(***************************************************************************)
\* The handler of process_csv (except Exception), entered with session s.
\* Its own commit can raise, and then the exception leaves process_csv.
RunErrorHandler(s, error, f) ==
    IF import_batch.id = 0
    THEN /\ result' = "False"
         /\ session' = s
         /\ faults' = f
         /\ UNCHANGED <<import_batch, db>>
    ELSE LET failed == [import_batch EXCEPT !.status = "failed", !.error_log = error,
                                            !.end_time = TRUE]
         IN  /\ import_batch' = failed
             /\ \E c \in CommitOutcomes(db, s, failed, FALSE, f) :
                    /\ db' = c.db
                    /\ session' = c.session
                    /\ faults' = IF c.faulted THEN f + 1 ELSE f
                    /\ result' = IF c.raised THEN "raised" ELSE "False"

\* df = pd.read_csv(self.csv_file_path)
LoadCsv ==
    /\ pc = "load"
    /\ IF csv.loadable
       THEN /\ pc' = "validate"
            /\ UNCHANGED <<import_batch, db, faults, session, result>>
       ELSE /\ pc' = "done"
            /\ RunErrorHandler(session, "ParserError", faults)
    /\ UNCHANGED <<race, call, csv, runNo, idx, col, nextId, cache, stats, raw_data, loc, hist>>

\* if not self.validate_csv_structure(df): return False
Validate ==
    /\ pc = "validate"
    /\ IF StructureValid[csv.header]
       THEN pc' = "batch" /\ result' = result
       ELSE pc' = "done" /\ result' = "False"
    /\ UNCHANGED <<race, call, csv, runNo, idx, col, faults, nextId, db, session, cache,
                   import_batch, stats, raw_data, loc, hist>>

\* self.import_batch = self.create_import_batch(df)
create_import_batch ==
    /\ pc = "batch"
    /\ LET batch == [id |-> nextId, total_rows |-> Len(csv.rows), successful_imports |-> 0,
                     failed_imports |-> 0, warnings |-> 0, status |-> "processing",
                     error_log |-> "", end_time |-> FALSE]
       IN  \E c \in CommitOutcomes(db, session, batch, FALSE, faults) :
              IF c.raised
              THEN /\ pc' = "done"
                   /\ RunErrorHandler(c.session, "DBAPIError",
                                      IF c.faulted THEN faults + 1 ELSE faults)
                   /\ UNCHANGED <<nextId, idx>>
              ELSE /\ pc' = "row"
                   /\ idx' = 0
                   /\ import_batch' = batch
                   /\ db' = c.db
                   /\ session' = c.session
                   /\ nextId' = nextId + 1
                   /\ UNCHANGED <<faults, result>>
    /\ UNCHANGED <<race, call, csv, runNo, col, cache, stats, raw_data, loc, hist>>


(***************************************************************************)
(* _process_row and the row loop of process_csv.                           *)
(***************************************************************************)
Row == DfRow(idx + 1)

\* except Exception as e (inside _process_row), then on to the finally block
RowExcept(error) ==
    /\ raw_data' = [raw_data EXCEPT !.import_status = "failed", !.error_message = error]
    /\ stats' = [stats EXCEPT !.failed_imports = @ + 1]
    /\ pc' = "row_finally"

\* for idx, row in df.iterrows(): / raw_data = RawImportData(...)
\* Reading self.import_batch.id reloads the batch, which raises on an
\* unusable session; that exception is caught by the handler of the row loop.
RowStart ==
    /\ pc = "row"
    /\ idx < Len(csv.rows)
    /\ IF session.needs_rollback
       THEN /\ stats' = [stats EXCEPT !.failed_imports = @ + 1]
            /\ idx' = idx + 1
            /\ UNCHANGED <<pc, raw_data, col>>
       ELSE /\ raw_data' = [import_batch_id |-> import_batch.id, row_number |-> idx + 1,
                            import_status |-> "processing", error_message |-> ""]
            /\ pc' = "agency"
            /\ col' = 1
            /\ UNCHANGED <<stats, idx>>
    /\ UNCHANGED <<race, call, csv, runNo, faults, nextId, db, session, cache, import_batch,
                   loc, result, hist>>

\* One resolver call of _process_row: outs are the outcomes of the call.
ResolveStep(at, outs, field, key, nextpc) ==
    /\ pc = at
    /\ \E r \in outs :
          /\ db' = r.db
          /\ session' = r.session
          /\ cache' = r.cache
          /\ nextId' = r.nextId
          /\ faults' = IF r.faulted THEN faults + 1 ELSE faults
          /\ IF r.raised
             THEN RowExcept("DBAPIError") /\ loc' = loc
             ELSE /\ loc' = [loc EXCEPT ![field] = r.ret]
                  /\ pc' = nextpc
                  /\ UNCHANGED <<raw_data, stats>>
          /\ hist' = [hist EXCEPT !.keys = @ \cup {key},
                                  !.failures = IF r.raised THEN @ \cup {<<idx + 1, at>>} ELSE @]
    /\ UNCHANGED <<race, call, csv, runNo, idx, col, import_batch, result>>

ResolveAgency ==
    LET code == Strip(Str(Row["OMB Agency Code"]))
    IN  ResolveStep("agency",
                    get_or_create_agency(code, Strip(Str(Row["Agency Title"]))),
                    "agency", <<"agency", 0, code>>, "bureau")

ResolveBureau ==
    LET code == Strip(Str(Row["OMB Bureau Code"]))
    IN  ResolveStep("bureau",
                    get_or_create_bureau(loc.agency, code, Strip(Str(Row["Bureau Title"]))),
                    "bureau", <<"bureau", loc.agency, code>>, "account")

ResolveAccount ==
    LET code == Strip(Str(Row["OMB Account"]))
    IN  ResolveStep("account",
                    get_or_create_account(loc.bureau, code, Strip(Str(Row["Account _Title"]))),
                    "account", <<"account", loc.bureau, code>>, "function")

ResolveFunction ==
    LET f == _parse_function_field(Str(Row["Default Budget Function"]))
    IN  ResolveStep("function",
                    get_or_create_function(f.code, f.name),
                    "function", <<"function", 0, f.code>>, "subfunction")

ResolveSubfunction ==
    LET f == _parse_function_field(Str(Row["Default Budget Subfunction"]))
    IN  ResolveStep("subfunction",
                    get_or_create_subfunction(loc.function, f.code, f.name),
                    "subfunction", <<"subfunction", loc.function, f.code>>, "object_class")

ResolveObjectClass ==
    LET code == Strip(Str(Row["OB Class Code"]))
    IN  ResolveStep("object_class",
                    get_or_create_object_class(code, Strip(Str(Row["OB Class"]))),
                    "object_class", <<"object_class", 0, code>>, "amounts")

\* A variant of the column loop that visits only the first amount column.
amount_columns_FirstOnly == SubSeq(AmountColumnsOf[csv.header], 1, 1)

amount_columns == AmountColumnsOf[csv.header]

\* A variant of the emission test that forgets the zero check.
EmitsOutlay_NoZeroCheck(amount) == amount.kind = "int"

\* if amount is not None and amount != 0
EmitsOutlay(amount) == amount.kind = "int" /\ amount.val # 0

\* One iteration of: for amount_col in amount_columns
ProcessAmountColumn ==
    /\ pc = "amounts"
    /\ col <= Len(amount_columns)
    /\ LET amount_col == amount_columns[col]
           amount == _parse_amount(Row[amount_col])
       IN  IF amount.kind = "raise"
           THEN RowExcept("OverflowError") /\ UNCHANGED <<session, col>>
           ELSE IF EmitsOutlay(amount)
           THEN IF session.needs_rollback        \* account.id cannot be reloaded
                THEN RowExcept("PendingRollbackError") /\ UNCHANGED <<session, col>>
                ELSE /\ session' = [session EXCEPT !.new_outlays = @ \cup
                            {[account_id |-> loc.account,
                              function_id |-> loc.function,
                              subfunction_id |-> loc.subfunction,
                              object_class_id |-> loc.object_class,
                              fiscal_year |-> _extract_fiscal_year(amount_col),
                              period |-> _extract_period(amount_col),
                              amount |-> amount.val,
                              data_source |-> DATA_SOURCE,
                              import_batch_id |-> import_batch.id,
                              confidence_score |-> 1,
                              row_number |-> idx + 1,      \* history: the row it came from
                              column |-> amount_col]}]     \* history: the column it came from
                     /\ col' = col + 1
                     /\ UNCHANGED <<pc, raw_data, stats>>
           ELSE /\ col' = col + 1
                /\ UNCHANGED <<pc, raw_data, stats, session>>
    /\ UNCHANGED <<race, call, csv, runNo, idx, faults, nextId, db, cache, import_batch, loc,
                   result, hist>>

\* A variant of the success step that leaves the status of raw_data as it was.
MarkSuccess_NoStatus ==
    /\ pc = "amounts"
    /\ col > Len(amount_columns)
    /\ stats' = [stats EXCEPT !.successful_imports = @ + 1]
    /\ pc' = "row_finally"
    /\ UNCHANGED <<race, call, csv, runNo, idx, col, faults, nextId, db, session, cache,
                   import_batch, loc, result, hist, raw_data>>

\* raw_data.import_status = "success"; self.stats['successful_imports'] += 1
MarkSuccess ==
    /\ pc = "amounts"
    /\ col > Len(amount_columns)
    /\ raw_data' = [raw_data EXCEPT !.import_status = "success"]
    /\ stats' = [stats EXCEPT !.successful_imports = @ + 1]
    /\ pc' = "row_finally"
    /\ UNCHANGED <<race, call, csv, runNo, idx, col, faults, nextId, db, session, cache,
                   import_batch, loc, result, hist>>

\* finally: self.session.add(raw_data); if idx % 100 == 0: self.session.commit()
\* A raising commit leaves _process_row and is caught by the row loop, which
\* counts the row as failed.
RowFinally ==
    /\ pc = "row_finally"
    /\ LET added == [session EXCEPT !.new_raw = @ \cup {raw_data}]
       IN  IF idx % FLUSH_INTERVAL = 0
           THEN \E c \in CommitOutcomes(db, added, import_batch, FALSE, faults) :
                   /\ db' = c.db
                   /\ session' = c.session
                   /\ faults' = IF c.faulted THEN faults + 1 ELSE faults
                   /\ stats' = IF c.raised
                               THEN [stats EXCEPT !.failed_imports = @ + 1]
                               ELSE stats
           ELSE /\ session' = added
                /\ UNCHANGED <<db, faults, stats>>
    /\ idx' = idx + 1
    /\ pc' = "row"
    /\ raw_data' = NoRaw
    /\ loc' = NoLoc
    /\ UNCHANGED <<race, call, csv, runNo, col, nextId, cache, import_batch, result, hist>>


(***************************************************************************)
(* _finalize_import_batch, called after the row loop.                      *)
(***************************************************************************)
\* self.session.commit()   (first statement of _finalize_import_batch)
FinalizeCommitPending ==
    /\ pc = "row"
    /\ idx = Len(csv.rows)
    /\ \E c \in CommitOutcomes(db, session, import_batch, FALSE, faults) :
          IF c.raised
          THEN /\ pc' = "done"
               /\ RunErrorHandler(c.session, "DBAPIError",
                                  IF c.faulted THEN faults + 1 ELSE faults)
          ELSE /\ pc' = "finalize_set"
               /\ db' = c.db
               /\ session' = c.session
               /\ UNCHANGED <<faults, import_batch, result>>
    /\ UNCHANGED <<race, call, csv, runNo, idx, col, nextId, cache, stats, raw_data, loc, hist>>

\* self.import_batch.successful_imports = ... ; status = "completed"; end_time = ...
FinalizeSetFields ==
    /\ pc = "finalize_set"
    /\ import_batch' = [import_batch EXCEPT
                            !.successful_imports = stats.successful_imports,
                            !.failed_imports = stats.failed_imports,
                            !.warnings = stats.warnings,
                            !.status = "completed",
                            !.end_time = TRUE]
    /\ pc' = "finalize_commit"
    /\ UNCHANGED <<race, call, csv, runNo, idx, col, faults, nextId, db, session, cache, stats,
                   raw_data, loc, result, hist>>

\* self.session.commit()   (last statement of _finalize_import_batch); return True
FinalizeCommitBatch ==
    /\ pc = "finalize_commit"
    /\ \E c \in CommitOutcomes(db, session, import_batch, FALSE, faults) :
          IF c.raised
          THEN RunErrorHandler(c.session, "DBAPIError",
                               IF c.faulted THEN faults + 1 ELSE faults)
          ELSE /\ db' = c.db
               /\ session' = c.session
               /\ result' = "True"
               /\ UNCHANGED <<faults, import_batch>>
    /\ pc' = "done"
    /\ UNCHANGED <<race, call, csv, runNo, idx, col, nextId, cache, stats, raw_data, loc, hist>>

\* How often the model imports a file: the long file once, any other file
\* MaxRuns times.
RunsOf(file) == IF Len(file.rows) > FLUSH_INTERVAL THEN 1 ELSE MaxRuns

(***************************************************************************)
(* A further run: a new OBJCLASSParser on the same file, with a new        *)
(* session, empty caches and zero statistics, against the store the        *)
(* earlier runs left.                                                      *)
(***************************************************************************)
NewParser ==
    /\ pc = "done"
    /\ runNo < RunsOf(csv)
    /\ runNo' = runNo + 1
    /\ pc' = "load"
    /\ idx' = 0
    /\ col' = 1
    /\ session' = NewSession
    /\ cache' = EmptyCaches
    /\ import_batch' = NoBatch
    /\ stats' = InitStats
    /\ raw_data' = NoRaw
    /\ loc' = NoLoc
    /\ result' = "pending"
    /\ hist' = [keys |-> {}, failures |-> {}, start_db |-> db,
                 results |-> Append(hist.results, result)]
    /\ UNCHANGED <<race, call, csv, faults, nextId, db>>

Next ==
    \/ LoadCsv
    \/ Validate
    \/ create_import_batch
    \/ RowStart
    \/ ResolveAgency
    \/ ResolveBureau
    \/ ResolveAccount
    \/ ResolveFunction
    \/ ResolveSubfunction
    \/ ResolveObjectClass
    \/ ProcessAmountColumn
    \/ MarkSuccess
    \/ RowFinally
    \/ FinalizeCommitPending
    \/ FinalizeSetFields
    \/ FinalizeCommitBatch
    \/ NewParser

Spec == Init /\ [][Next]_vars

(***************************************************************************)
(* The field parsers applied on their own: each behaviour applies one      *)
(* parser to one argument.  Generated arguments are concatenations of      *)
(* tokens; a few texts of real files are added to them.                    *)
(***************************************************************************)
RECURSIVE Texts(_, _)
Texts(tokens, n) ==
    IF n = 0 THEN {""}
    ELSE LET shorter == Texts(tokens, n - 1)
         IN  shorter \cup {s \o t : s \in shorter, t \in tokens}

\* amount cells: NaN, texts float() rejects or maps to inf / nan, and
\* decimals with an optional sign or currency symbol
AmountCells ==
    {NaN}
    \cup {Cell(t) : t \in {"", " ", "abc", "12 3", "--1", "inf", "-inf", "nan",
                           "0", "7", " 7 ", "$2", "1,234.50", "0.0004"}}
    \cup {Cell(pre \o ip \o "." \o fp) :
             pre \in {"", "-", "$"}, ip \in {"0", "1", "2", "1,234"},
             fp \in Texts({"0", "1", "5"}, MaxFracDigits)}

\* amount-column headers
HeaderTexts ==
    Texts({"PY", "CY", "BY", " ", "20", "26"}, MaxTokens)
    \cup {"PY Amount", "2026 PY CY Amount", "BY 2027", "Total"}

\* agency and bureau titles
TitleTexts ==
    Texts({"(", ")", "ED", " "}, MaxTokens)
    \cup {"Department of Education (ED)", "Office of the Secretary"}

\* Default Budget Function / Subfunction cells
FunctionFieldTexts ==
    Texts({"A", " - ", " ", "-"}, MaxTokens)
    \cup {"GENERAL", "500 - Education", "800 - General - Government "}

\* OB Class Code cells
ObjectClassCodes == Texts({"25", ".", "1"}, MaxTokens) \cup {"10", "25.1.2"}

\* df.columns: the required columns, all or all but one, followed by up to
\* MaxExtraColumns other columns
ExtraColumns == {"PY Amount", "CY 2026", "amount by", "Total"}

ColumnLists ==
    {SelectSeq(required_columns, LAMBDA c : drop = 0 \/ c # required_columns[drop]) \o extra :
        drop \in 0..Len(required_columns), extra \in SeqsUpTo(ExtraColumns, MaxExtraColumns)}

\* Rows for the two validators: the rows of the model, a row with an empty
\* agency code, one with an empty title, and rows with a bureau code of 20
\* and of 21 characters.
ValidatorRows ==
    {RowTable[r] : r \in DOMAIN RowTable}
    \cup {[RowTable.education EXCEPT !["OMB Agency Code"] = NaN],
          [RowTable.education EXCEPT !["Bureau Title"] = NaN],
          [RowTable.education EXCEPT !["OMB Bureau Code"] = Cell("12345678901234567890")],
          [RowTable.education EXCEPT !["OMB Bureau Code"] = Cell("123456789012345678901")]}

\* Loaded tables for the two validators: each header of the model with up to
\* MaxRows of these rows.
ValidatorTables ==
    {[columns |-> HeaderTable[h], rows |-> [i \in DOMAIN rs |-> Restrict(rs[i], HeaderTable[h])]] :
        h \in DOMAIN HeaderTable, rs \in SeqsUpTo(ValidatorRows, MaxRows)}

FieldCalls(fn, args) ==
    {[fn |-> fn, arg |-> a, returned |-> FALSE, ret |-> "<pending>"] : a \in args}

FieldInit ==
    /\ csv = [loadable |-> FALSE, header |-> "valid", rows |-> <<>>]
    /\ Constructed
    /\ race = RaceStart
    /\ \/ call \in FieldCalls("validate_csv_structure", ColumnLists)
       \/ call \in FieldCalls("_parse_amount", AmountCells)
       \/ call \in FieldCalls("_parse_function_field", FunctionFieldTexts)
       \/ call \in FieldCalls("_extract_period", HeaderTexts)
       \/ call \in FieldCalls("_extract_fiscal_year", HeaderTexts)
       \/ call \in FieldCalls("_extract_abbreviation", TitleTexts)
       \/ call \in FieldCalls("ObjectClass", ObjectClassCodes)
       \/ call \in FieldCalls("validate_objclass.validate_csv_structure", ValidatorTables)

\* the call of fn is pending
Pending(fn) == call.fn = fn /\ ~call.returned

\* the call returns value
Return(value) ==
    /\ call' = [call EXCEPT !.returned = TRUE, !.ret = value]
    /\ UNCHANGED <<parser_vars, race>>

ValidateCall == Pending("validate_csv_structure") /\ Return(validate_csv_structure(call.arg))

ParseAmountCall == Pending("_parse_amount") /\ Return(_parse_amount(call.arg))

ParseFunctionFieldCall ==
    Pending("_parse_function_field") /\ Return(_parse_function_field(call.arg))

ExtractPeriodCall == Pending("_extract_period") /\ Return(_extract_period(call.arg))

ExtractFiscalYearCall ==
    Pending("_extract_fiscal_year") /\ Return(_extract_fiscal_year(call.arg))

ExtractAbbreviationCall ==
    Pending("_extract_abbreviation") /\ Return(_extract_abbreviation(call.arg))

\* the entity get_or_create_object_class constructs for a code it has not met
NewObjectClassCall ==
    Pending("ObjectClass") /\ Return(NewObjectClass(1, call.arg, "Advisory services"))

StandaloneValidateCall ==
    /\ Pending("validate_objclass.validate_csv_structure")
    /\ Return(validate_objclass_validate_csv_structure(call.arg))

FieldNext ==
    \/ StandaloneValidateCall
    \/ ValidateCall
    \/ ParseAmountCall
    \/ ParseFunctionFieldCall
    \/ ExtractPeriodCall
    \/ ExtractFiscalYearCall
    \/ ExtractAbbreviationCall
    \/ NewObjectClassCall

FieldSpec == FieldInit /\ [][FieldNext]_vars

(***************************************************************************)
(* Two runs side by side.  Two parsers, each with its own session and       *)
(* caches, import the same file into one store.  Each get_or_create_* call  *)
(* is two steps, the lookup (cache, then store query) and, when nothing was *)
(* found, the insert (construct, add, commit); the steps of the two         *)
(* parsers interleave.  A query sees what the other session has committed.  *)
(***************************************************************************)
\* The file both parsers import.
RaceFile == [loadable |-> TRUE, header |-> "valid", rows |-> <<"education", "postsecondary">>]

\* The kinds whose code column is declared unique=True.
UniqueKinds_None == {}

UniqueKinds == {"agency", "function", "object_class"}

RaceTable ==
    [agency |-> "agencies", bureau |-> "bureaus", account |-> "accounts",
     function |-> "budget_functions", subfunction |-> "budget_subfunctions",
     object_class |-> "object_classes"]

\* The get_or_create_* call of parser P at its current step: the cache and
\* the cache key, the rows the store query matches, and the entity the method
\* constructs when it found none.
RaceCall(P) ==
    LET kind == RaceSteps[P.step]
        row == DataFrame[csv.header][csv.rows[P.row]]
        d == race.db
        id == race.nextId
        agency == CHOOSE a \in d.agencies : a.id = P.loc.agency
        bureau == CHOOSE b \in d.bureaus : b.id = P.loc.bureau
        function == CHOOSE f \in d.budget_functions : f.id = P.loc.function
    IN  CASE kind = "agency" ->
               LET code == Strip(Str(row["OMB Agency Code"]))
                   title == Strip(Str(row["Agency Title"]))
               IN  [key |-> code,
                    found |-> {a \in d.agencies : a.omb_code = code},
                    entity |-> [id |-> id, omb_code |-> code, title |-> Strip(title),
                                abbreviation |-> _extract_abbreviation(title)]]
          [] kind = "bureau" ->
               LET code == Strip(Str(row["OMB Bureau Code"]))
                   title == Strip(Str(row["Bureau Title"]))
               IN  [key |-> agency.omb_code \o ":" \o code,
                    found |-> {b \in d.bureaus : /\ b.agency_id = P.loc.agency
                                                  /\ b.omb_code = code},
                    entity |-> [id |-> id, agency_id |-> P.loc.agency, omb_code |-> code,
                                title |-> Strip(title),
                                abbreviation |-> _extract_abbreviation(title)]]
          [] kind = "account" ->
               LET code == Strip(Str(row["OMB Account"]))
                   title == Strip(Str(row["Account _Title"]))
               IN  [key |-> bureau.omb_code \o ":" \o code,
                    found |-> {a \in d.accounts : /\ a.bureau_id = P.loc.bureau
                                                   /\ a.omb_account_code = code},
                    entity |-> [id |-> id, bureau_id |-> P.loc.bureau,
                                omb_account_code |-> code, title |-> Strip(title),
                                description |-> Strip(title)]]
          [] kind = "function" ->
               LET f == _parse_function_field(Str(row["Default Budget Function"]))
               IN  [key |-> f.code,
                    found |-> {x \in d.budget_functions : x.code = f.code},
                    entity |-> [id |-> id, code |-> f.code, title |-> Strip(f.name),
                                description |-> Strip(f.name)]]
          [] kind = "subfunction" ->
               LET f == _parse_function_field(Str(row["Default Budget Subfunction"]))
               IN  [key |-> function.code \o ":" \o f.code,
                    found |-> {x \in d.budget_subfunctions : /\ x.function_id = P.loc.function
                                                              /\ x.code = f.code},
                    entity |-> [id |-> id, function_id |-> P.loc.function, code |-> f.code,
                                title |-> Strip(f.name), description |-> Strip(f.name)]]
          [] kind = "object_class" ->
               LET code == Strip(Str(row["OB Class Code"]))
               IN  [key |-> code,
                    found |-> {o \in d.object_classes : o.code = code},
                    entity |-> NewObjectClass(id, code, Strip(Str(row["OB Class"])))]

\* The method returns entity id: it is cached and kept for the row, and the
\* parser goes on to the next resolver call, of this row or of the next.
RaceReturn(P, key, id) ==
    LET kind == RaceSteps[P.step]
        last == P.step = Len(RaceSteps)
    IN  [P EXCEPT !.cache[kind \o "_cache"] = Put(@, key, id),
                  !.loc = IF last THEN NoLoc ELSE [@ EXCEPT ![kind] = id],
                  !.phase = "query",
                  !.step = IF last THEN 1 ELSE @ + 1,
                  !.row = IF last THEN @ + 1 ELSE @,
                  !.state = IF last /\ P.row = Len(csv.rows) THEN "done" ELSE @]

\* if cache_key in self.<kind>_cache: return ...; <entity> = query.first()
RaceLookup(p) ==
    LET P == race.procs[p]
        c == RaceCall(P)
        hits == P.cache[RaceSteps[P.step] \o "_cache"]
    IN  /\ P.state = "running"
        /\ P.phase = "query"
        /\ IF c.key \in DOMAIN hits
           THEN race' = [race EXCEPT !.procs[p] = RaceReturn(P, c.key, hits[c.key])]
           ELSE IF c.found # {}
           THEN \E e \in c.found :
                   race' = [race EXCEPT !.procs[p] = RaceReturn(P, c.key, e.id)]
           ELSE race' = [race EXCEPT !.procs[p].phase = "insert"]
        /\ UNCHANGED <<parser_vars, call>>

\* if not <entity>: <entity> = ...; self.session.add(...); self.session.commit()
\* The commit raises when a unique constraint rejects the row; the session is
\* not rolled back, so this row and every later row of the run fail.
RaceInsert(p) ==
    LET P == race.procs[p]
        c == RaceCall(P)
        kind == RaceSteps[P.step]
    IN  /\ P.state = "running"
        /\ P.phase = "insert"
        /\ IF kind \in UniqueKinds /\ c.found # {}
           THEN race' = [race EXCEPT !.procs[p].state = "failed",
                                      !.procs[p].failed_at = kind]
           ELSE race' = [race EXCEPT
                            !.db[RaceTable[kind]] = @ \cup {c.entity},
                            !.nextId = @ + 1,
                            !.procs[p] = RaceReturn(P, c.key, c.entity.id)]
        /\ UNCHANGED <<parser_vars, call>>

RaceInit ==
    /\ csv = RaceFile
    /\ Constructed
    /\ call = NoCall
    /\ race = RaceStart

RaceNext == \E p \in Procs : RaceLookup(p) \/ RaceInsert(p)

RaceSpec == RaceInit /\ [][RaceNext]_vars

\* the call of fn has returned
Returned(fn) == call.fn = fn /\ call.returned

TypeOK ==
    /\ pc \in {"load", "validate", "batch", "row", "agency", "bureau", "account",
               "function", "subfunction", "object_class", "amounts", "row_finally",
               "finalize_set", "finalize_commit", "done"}
    /\ result \in {"pending", "True", "False", "raised"}
    /\ idx \in 0..Len(csv.rows)
    /\ faults \in 0..MaxFaults
    /\ runNo \in 1..MaxRuns


(***************************************************************************)
(* Properties.                                                             *)
(***************************************************************************)
DimensionTables ==
    {"agencies", "bureaus", "accounts", "budget_functions", "budget_subfunctions",
     "object_classes"}

AllOutlays == db.outlays \cup session.new_outlays
AllRaw == db.raw_import_data \cup session.new_raw

KindTable(kind) ==
    CASE kind = "agency" -> db.agencies
      [] kind = "bureau" -> db.bureaus
      [] kind = "account" -> db.accounts
      [] kind = "function" -> db.budget_functions
      [] kind = "subfunction" -> db.budget_subfunctions
      [] kind = "object_class" -> db.object_classes

Kinds == {"agency", "bureau", "account", "function", "subfunction", "object_class"}

\* C1: in a first run against an empty store in which the store rejected
\* nothing, each dimension table holds exactly as many entities as there are
\* distinct composite keys (parent entity, code) handed to its resolver.
C1_OneEntityPerDistinctKey ==
    (runNo = 1 /\ faults = 0) =>
        \A kind \in Kinds :
            Cardinality(KindTable(kind)) = Cardinality({k \in hist.keys : k[1] = kind})

\* C2: the entity a scoped resolver returned for the current row belongs to
\* the parent it was called with: the account to the row's bureau, the bureau
\* to the row's agency, the subfunction to the row's function.
C2_ScopedEntityBelongsToParent ==
    /\ loc.bureau # 0 => BureauOf(loc.bureau).agency_id = loc.agency
    /\ loc.account # 0 => AccountOf(loc.account).bureau_id = loc.bureau
    /\ loc.subfunction # 0 => SubfunctionOf(loc.subfunction).function_id = loc.function

NoDuplicateKeys ==
    /\ \A a, b \in db.agencies : a.omb_code = b.omb_code => a = b
    /\ \A a, b \in db.bureaus :
          (a.agency_id = b.agency_id /\ a.omb_code = b.omb_code) => a = b
    /\ \A a, b \in db.accounts :
          (a.bureau_id = b.bureau_id /\ a.omb_account_code = b.omb_account_code) => a = b
    /\ \A a, b \in db.budget_functions : a.code = b.code => a = b
    /\ \A a, b \in db.budget_subfunctions :
          (a.function_id = b.function_id /\ a.code = b.code) => a = b
    /\ \A a, b \in db.object_classes : a.code = b.code => a = b

\* C3: no two dimension rows of the store share a composite key, and in a run
\* on the same file that follows a run which returned True the six dimension
\* tables stay as they were at the start of the run, while the Outlay,
\* RawImportData and ImportBatch tables only grow.
C3_RerunCreatesNoDimensionRows ==
    /\ NoDuplicateKeys
    /\ (runNo > 1 /\ hist.results[runNo - 1] = "True") =>
          /\ \A t \in DimensionTables : db[t] = hist.start_db[t]
          /\ hist.start_db.outlays \subseteq db.outlays
          /\ hist.start_db.raw_import_data \subseteq db.raw_import_data
          /\ Cardinality(db.import_batches) >= Cardinality(hist.start_db.import_batches)

C3_Witness ==
    /\ runNo = 2
    /\ hist.results[1] = "True"
    /\ pc = "done"
    /\ result = "True"
    /\ Len(csv.rows) = 2
    /\ Cardinality(db.accounts) = 2
    /\ Cardinality(db.import_batches) = 2
    /\ Cardinality(db.raw_import_data) = 4
    /\ Cardinality(db.outlays) > Cardinality(hist.start_db.outlays)

\* C4: a row whose RawImportData has status "failed" has no Outlay in the
\* session or in the store.
C4_FailedRowLeavesNoOutlay ==
    \A r \in AllRaw \cup {raw_data} :
        r.import_status = "failed" =>
            \A o \in AllOutlays :
                ~(o.import_batch_id = r.import_batch_id /\ o.row_number = r.row_number)

\* C5: a run that opened its batch and in which some row failed still ends
\* with the batch "completed" and process_csv returning True.
C5_RowFailureIsRowScoped ==
    (pc = "done" /\ import_batch.id # 0 /\ stats.failed_imports > 0) =>
        /\ idx = Len(csv.rows)
        /\ result = "True"
        /\ import_batch.status = "completed"

\* What each amount cell of the rows of the model parses to.
CellAmount ==
    [r \in DOMAIN RowTable |->
        [c \in {"PY Amount", "CY Amount"} |-> _parse_amount(RowTable[r][c])]]

\* C6: every Outlay in the session or the store has a nonzero amount, and it
\* is the integer its source cell parses to.
C6_NoZeroAmountOutlay ==
    \A o \in AllOutlays :
        /\ o.amount # 0
        /\ CellAmount[csv.rows[o.row_number]][o.column] = AmountInt(o.amount)

\* A successful row with a nonzero text that rescales to 0 and one with a "0"
\* cell have both been stored, without an Outlay for those cells.
C6_Witness ==
    /\ pc = "done"
    /\ result = "True"
    /\ \E r \in db.raw_import_data :
          /\ r.import_status = "success"
          /\ DfRow(r.row_number)["CY Amount"] = Cell("0.0004")
          /\ ~\E o \in db.outlays : o.row_number = r.row_number
    /\ \E r \in db.raw_import_data :
          /\ r.import_status = "success"
          /\ DfRow(r.row_number)["CY Amount"] = Cell("0")
          /\ \E o \in db.outlays : o.row_number = r.row_number /\ o.column = "PY Amount"
          /\ ~\E o \in db.outlays : o.row_number = r.row_number /\ o.column = "CY Amount"

\* C7: when a run that entered the row loop has ended, the store holds
\* exactly one RawImportData record of its batch for every row of the file.
C7_OneRawRecordPerRow ==
    (pc = "done" /\ import_batch.id # 0) =>
        \A i \in 1..Len(csv.rows) :
            Cardinality({r \in db.raw_import_data :
                            r.import_batch_id = import_batch.id /\ r.row_number = i}) = 1

\* C8: once the ImportBatch of a run has status "completed" or "failed" its
\* status never changes again, and a row is processed only while the batch
\* has status "processing".
C8_TerminalStatusWrittenOnce ==
    [][/\ (runNo' = runNo /\ import_batch.status \in {"completed", "failed"})
            => import_batch'.status = import_batch.status
       /\ idx' # idx => import_batch.status = "processing"]_vars

\* C9: a run that ended with a run-level error (the file did not load, or the
\* structure was valid and process_csv did not return True) returned False
\* and left an ImportBatch with status "failed", an error text and an end time.
C9_RunErrorLeavesFailedBatch ==
    (pc = "done" /\ result # "True"
        /\ (~csv.loadable \/ StructureValid[csv.header])) =>
        /\ result = "False"
        /\ \E b \in db.import_batches \ hist.start_db.import_batches :
              b.status = "failed" /\ b.error_log # "" /\ b.end_time

HeaderOk(columns) ==
    /\ \A i \in 1..Len(required_columns) : required_columns[i] \in Range(columns)
    /\ \E c \in Range(columns) : IsAmountColumn(c)

\* The headers of the model that lack a required column or an amount column.
BadHeaders == {h \in DOMAIN HeaderTable : ~HeaderOk(HeaderTable[h])}

\* C10: for a loadable file whose header lacks a required column or has no
\* amount column, no run opens a batch, processes a row or writes anything,
\* and process_csv returns False.
C10_ValidationFailureWritesNothing ==
    (csv.loadable /\ csv.header \in BadHeaders) =>
        /\ db = EmptyDb
        /\ session = NewSession
        /\ import_batch = NoBatch
        /\ idx = 0
        /\ raw_data = NoRaw
        /\ stats = InitStats
        /\ cache = EmptyCaches
        /\ pc \in {"load", "validate", "done"}
        /\ pc = "done" => result = "False"

C10_Witness ==
    /\ csv.loadable
    /\ csv.header = "no_amounts"
    /\ Len(csv.rows) > 0
    /\ runNo = 2
    /\ pc = "done"
    /\ result = "False"


\* total, successful, failed and warning counts of an ImportBatch record
BatchCounts(b) == <<b.total_rows, b.successful_imports, b.failed_imports, b.warnings>>

\* C12: when a run that opened a batch has ended, the counts of its
\* ImportBatch (the parser's object, and the stored record once it has
\* status "completed" or "failed") are the number of rows of the file and the
\* successful, failed and warning counts of the run's statistics.
C12_BatchCountsEqualStats ==
    (pc = "done" /\ import_batch.id # 0) =>
        LET expected == <<Len(csv.rows), stats.successful_imports, stats.failed_imports,
                          stats.warnings>>
        IN  /\ import_batch.status \in {"completed", "failed"}
            /\ BatchCounts(import_batch) = expected
            /\ \A b \in db.import_batches :
                  (b.id = import_batch.id /\ b.status \in {"completed", "failed"})
                      => BatchCounts(b) = expected

\* C20: when the first run on the three-row file has ended and its second row
\* failed at agency resolution, the store holds one Agency and one Outlay
\* (row 1, PY column), row 2 has a RawImportData with status "failed" and no
\* Outlay, and the batch is "completed" with total 3, successful 2, failed 1.
C20_EndToEndThreeRows ==
    (csv = EndToEndFile /\ runNo = 1 /\ pc = "done" /\ <<2, "agency">> \in hist.failures) =>
        /\ Cardinality(db.agencies) = 1
        /\ \E o \in db.outlays :
              /\ db.outlays = {o}
              /\ o.row_number = 1
              /\ o.column = "PY Amount"
        /\ \E r \in db.raw_import_data : r.row_number = 2 /\ r.import_status = "failed"
        /\ \A b \in db.import_batches :
              /\ b.status = "completed"
              /\ BatchCounts(b) = <<3, 2, 1, 0>>
        /\ result = "True"

(***************************************************************************)
(* Properties of the field parsers (FieldSpec).                            *)
(***************************************************************************)
\* C11: validate_csv_structure returns True exactly when every one of the ten
\* required column names is among the headers and some header contains "PY",
\* "CY" or "BY".
C11_ValidatorIffRequiredAndAmount ==
    Returned("validate_csv_structure") =>
        (call.ret <=>
            /\ \A i \in 1..Len(required_columns) :
                  \E j \in 1..Len(call.arg) : call.arg[j] = required_columns[i]
            /\ \E j \in 1..Len(call.arg) :
                  \/ Contains(call.arg[j], "PY")
                  \/ Contains(call.arg[j], "CY")
                  \/ Contains(call.arg[j], "BY"))

\* Accepted with "CY 2026" as the only amount column; rejected with the
\* lower-case "amount by" as the only candidate.
C11_Witness ==
    /\ Returned("validate_csv_structure")
    /\ \/ call.arg = required_columns \o <<"CY 2026">> /\ call.ret = TRUE
       \/ call.arg = required_columns \o <<"amount by", "Total">> /\ call.ret = FALSE

\* C13: _parse_amount never raises: it returns an integer or None.
C13_ParseAmountNeverRaises ==
    Returned("_parse_amount") => call.ret.kind \in {"int", "none"}

\* The decimal text of an amount cell after "," and "$" are removed.
CleanAmountText(value) == Strip(RemoveChar(RemoveChar(value.text, ","), "$"))

\* sign * floor(num * 1000 / 10^scale): the decimal times 1000, truncated
\* toward zero
DecimalTimesThousand(f) ==
    LET mag == (f.num * 1000) \div Pow10(f.scale)
    IN  IF f.neg THEN 0 - mag ELSE mag

\* C14: NaN and "" give None, and a decimal text gives the integer that is
\* its decimal value times 1000, truncated toward zero.
C14_AmountIsDecimalTimesThousand ==
    Returned("_parse_amount") =>
        IF call.arg.na \/ CleanAmountText(call.arg) = ""
        THEN call.ret = AmountNone
        ELSE LET f == ParseFloat(CleanAmountText(call.arg))
             IN  f.kind = "num" => call.ret = AmountInt(DecimalTimesThousand(f))

\* C15: the code is the trimmed text before the first " - " of the trimmed
\* input and the name the trimmed text after it; without " - " both are the
\* trimmed input.
C15_SplitsOnFirstSeparator ==
    Returned("_parse_function_field") =>
        LET t == Strip(call.arg)
            IsSep(i) == i + 2 <= Len(t) /\ SubSeq(t, i, i + 2) = " - "
        IN  IF \E i \in 1..Len(t) : IsSep(i)
            THEN \E i \in 1..Len(t) :
                    /\ IsSep(i)
                    /\ \A j \in 1..(i - 1) : ~IsSep(j)
                    /\ call.ret.code = Strip(SubSeq(t, 1, i - 1))
                    /\ call.ret.name = Strip(SubSeq(t, i + 3, Len(t)))
            ELSE call.ret = [code |-> t, name |-> t]

\* A field with two separators keeps the second in the name.
C15_Witness ==
    /\ Returned("_parse_function_field")
    /\ call.arg = "800 - General - Government "
    /\ call.ret = [code |-> "800", name |-> "General - Government"]

\* C16: "PY" if the header contains "PY", else "CY" if it contains "CY",
\* else "BY" if it contains "BY", else "CY".
C16_PeriodPriority ==
    Returned("_extract_period") =>
        /\ Contains(call.arg, "PY") => call.ret = "PY"
        /\ (~Contains(call.arg, "PY") /\ Contains(call.arg, "CY")) => call.ret = "CY"
        /\ (~Contains(call.arg, "PY") /\ ~Contains(call.arg, "CY") /\ Contains(call.arg, "BY"))
              => call.ret = "BY"
        /\ (~Contains(call.arg, "PY") /\ ~Contains(call.arg, "CY") /\ ~Contains(call.arg, "BY"))
              => call.ret = "CY"

\* A header with "CY" and "BY" before "PY" yields "PY".
C16_Witness ==
    /\ Returned("_extract_period")
    /\ call.arg = "CYBYPY"
    /\ call.ret = "PY"

\* The first position of the header where "20" and two digits stand, or 0.
FirstYearAt(header) ==
    IF \E i \in 1..Len(header) : YearMatchAt(header, i)
    THEN CHOOSE i \in 1..Len(header) :
            YearMatchAt(header, i) /\ \A j \in 1..(i - 1) : ~YearMatchAt(header, j)
    ELSE 0

\* the integer four digit characters stand for
FourDigits(s) ==
    1000 * DigitVal(CharAt(s, 1)) + 100 * DigitVal(CharAt(s, 2))
        + 10 * DigitVal(CharAt(s, 3)) + DigitVal(CharAt(s, 4))

\* C17 as stated: the result is the integer of the first "20dd" of the
\* header, and it is 2026 exactly when the header has no "20dd".
C17_Default2026ExactlyWhenNoYear ==
    Returned("_extract_fiscal_year") =>
        LET p == FirstYearAt(call.arg)
        IN  /\ p # 0 => call.ret = FourDigits(SubSeq(call.arg, p, p + 3))
            /\ call.ret = 2026 <=> p = 0

\* C17 amended: the result is the integer of the first "20dd" of the header,
\* and 2026 when the header has no "20dd".
C17_FirstYearElse2026 ==
    Returned("_extract_fiscal_year") =>
        LET p == FirstYearAt(call.arg)
        IN  call.ret = IF p # 0 THEN FourDigits(SubSeq(call.arg, p, p + 3)) ELSE 2026

\* "202026" holds "2020" and then "2026": the result is 2020.
C17_Witness ==
    /\ Returned("_extract_fiscal_year")
    /\ call.arg = "202026"
    /\ call.ret = 2020

\* C18: when the title has "(" and ")" and its last "(" stands before its
\* last ")", the result is the trimmed text between the two (empty for "()");
\* otherwise it is None.
C18_AbbreviationBetweenLastParens ==
    Returned("_extract_abbreviation") =>
        LET t == call.arg
            IsLast(i, c) == CharAt(t, i) = c /\ \A j \in (i + 1)..Len(t) : CharAt(t, j) # c
        IN  IF \E i, j \in 1..Len(t) : IsLast(i, "(") /\ IsLast(j, ")") /\ i < j
            THEN \E i, j \in 1..Len(t) :
                    /\ IsLast(i, "(") /\ IsLast(j, ")") /\ i < j
                    /\ call.ret = Strip(SubSeq(t, i + 1, j - 1))
            ELSE call.ret = NoAbbreviation

\* C19: the group_code of a constructed ObjectClass is the part of its code
\* before the first ".", and the whole code when the code has no ".".
C19_GroupCodeBeforeFirstPeriod ==
    Returned("ObjectClass") =>
        LET code == call.arg
            g == call.ret.group_code
        IN  /\ call.ret.code = code
            /\ ~Contains(g, ".")
            /\ IF Contains(code, ".")
               THEN SubSeq(code, 1, Len(g) + 1) = g \o "."
               ELSE g = code

\* "25.1.2" has two periods: the group code is "25".
C19_Witness ==
    /\ Returned("ObjectClass")
    /\ call.arg = "25.1.2"
    /\ call.ret.group_code = "25"

(***************************************************************************)
(* Properties of the parser: entities, facts, counters, durability.        *)
(***************************************************************************)
\* The rows of the store that carry the composite key (parent entity and
\* code) which the resolver at pc is about to look up for the current row.
RowKeyEntities ==
    CASE pc = "agency" ->
           {a \in db.agencies : a.omb_code = Strip(Str(Row["OMB Agency Code"]))}
      [] pc = "bureau" ->
           {b \in db.bureaus : /\ b.agency_id = loc.agency
                                /\ b.omb_code = Strip(Str(Row["OMB Bureau Code"]))}
      [] pc = "account" ->
           {a \in db.accounts : /\ a.bureau_id = loc.bureau
                                 /\ a.omb_account_code = Strip(Str(Row["OMB Account"]))}
      [] pc = "function" ->
           {f \in db.budget_functions :
               f.code = _parse_function_field(Str(Row["Default Budget Function"])).code}
      [] pc = "subfunction" ->
           {f \in db.budget_subfunctions :
               /\ f.function_id = loc.function
               /\ f.code = _parse_function_field(Str(Row["Default Budget Subfunction"])).code}
      [] pc = "object_class" ->
           {o \in db.object_classes : o.code = Strip(Str(Row["OB Class Code"]))}
      [] OTHER -> {}

C22_SuccessRowOutlays ==
    (pc = "row_finally" /\ raw_data.import_status = "success") =>
        LET row == csv.rows[idx + 1]
            emitting == {c \in Range(AmountColumns(HeaderTable[csv.header])) :
                            /\ CellAmount[row][c].kind = "int"
                            /\ CellAmount[row][c].val # 0}
            mine == {o \in AllOutlays : /\ o.import_batch_id = import_batch.id
                                        /\ o.row_number = idx + 1}
        IN  /\ Cardinality(mine) = Cardinality(emitting)
            /\ {o.column : o \in mine} = emitting
            /\ loc.account # 0 /\ loc.function # 0
            /\ loc.subfunction # 0 /\ loc.object_class # 0
            /\ \A o \in mine :
                  /\ o.confidence_score = 1
                  /\ o.period = _extract_period(o.column)
                  /\ o.fiscal_year = _extract_fiscal_year(o.column)
                  /\ o.amount = CellAmount[row][o.column].val
                  /\ o.data_source = DATA_SOURCE
                  /\ o.account_id = loc.account
                  /\ o.function_id = loc.function
                  /\ o.subfunction_id = loc.subfunction
                  /\ o.object_class_id = loc.object_class

\* A row with two nonzero amount cells has been marked "success" and two
\* Outlays came from it.
C22_Witness ==
    /\ pc = "row_finally"
    /\ raw_data.import_status = "success"
    /\ Cardinality({o \in session.new_outlays : o.row_number = idx + 1}) = 2

\* C23: each row adds one to exactly one of successful_imports and
\* failed_imports: between rows the two counters add up to the number of rows
\* handled so far, and from finalization on they add up to total_rows, with
\* successful_imports the number of RawImportData records of the batch that
\* have status "success".
C23_EachRowCountedOnce ==
    /\ pc = "row" => stats.successful_imports + stats.failed_imports = idx
    /\ (pc \in {"finalize_set", "finalize_commit"} \/ (pc = "done" /\ result = "True")) =>
          /\ stats.successful_imports + stats.failed_imports = import_batch.total_rows
          /\ stats.successful_imports =
                Cardinality({r \in AllRaw : /\ r.import_batch_id = import_batch.id
                                            /\ r.import_status = "success"})

\* The rows that were handled to the end of _process_row and whose
\* RawImportData the session still holds uncommitted.
UncommittedRows == {r.row_number : r \in session.new_raw}

\* C24: with the flush interval 100, at most 99 fully processed rows are
\* uncommitted at any point of a run.
C24_AtMost99RowsUncommitted ==
    Cardinality(UncommittedRows) <= FLUSH_INTERVAL - 1

\* C25: the Outlay and RawImportData tables of the store change only in the
\* periodic commit of a row whose idx is a multiple of 100 and in the commits
\* of _finalize_import_batch; no other step of the row loop makes pending
\* Outlay or RawImportData rows durable.
C25_FactsDurableOnlyAtFlushOrFinalize ==
    [][(db'.outlays # db.outlays \/ db'.raw_import_data # db.raw_import_data) =>
          \/ pc = "row_finally" /\ idx % FLUSH_INTERVAL = 0
          \/ pc = "row" /\ idx = Len(csv.rows)
          \/ pc = "finalize_commit"]_vars

\* C26: every RawImportData that a step leaves in the session or in the store
\* has status "success" or "failed", never "processing", and within a run a
\* record that was added stays as it was added.
C26_RawStatusFinalWhenAdded ==
    [][/\ \A r \in AllRaw' : r.import_status \in {"success", "failed"}
       /\ runNo' = runNo => \A r \in AllRaw : r \in AllRaw']_vars

\* A run has ended with a "success" and a "failed" record in the store.
C26_Witness ==
    /\ pc = "done"
    /\ \E r \in db.raw_import_data : r.import_status = "success"
    /\ \E r \in db.raw_import_data : r.import_status = "failed"

\* The cache key the resolver of a kind builds for a stored entity e: its
\* code, after the code of its parent entity for the scoped kinds.
StoredKey(kind, e) ==
    CASE kind = "agency" -> e.omb_code
      [] kind = "bureau" -> AgencyOf(e.agency_id).omb_code \o ":" \o e.omb_code
      [] kind = "account" -> BureauOf(e.bureau_id).omb_code \o ":" \o e.omb_account_code
      [] kind = "function" -> e.code
      [] kind = "subfunction" -> FunctionOf(e.function_id).code \o ":" \o e.code
      [] kind = "object_class" -> e.code

\* C28: every entry of each of the six caches maps its key to an entity that
\* is committed to the store and whose stored parent entity and code give
\* that cache key; so an entity whose insert failed is in no cache.
C28_CacheEntriesAreStoredEntities ==
    \A kind \in Kinds :
        \A k \in DOMAIN cache[kind \o "_cache"] :
            \E e \in KindTable(kind) :
                /\ e.id = cache[kind \o "_cache"][k]
                /\ StoredKey(kind, e) = k

\* In a second run every cache has an entry, filled from the store the first
\* run left.
C28_Witness ==
    /\ runNo = 2
    /\ hist.start_db.object_classes # {}
    /\ \A kind \in Kinds : DOMAIN cache[kind \o "_cache"] # {}

\* The resolver step that follows each resolver step of _process_row.
StepAfter ==
    [agency |-> "bureau", bureau |-> "account", account |-> "function",
     function |-> "subfunction", subfunction |-> "object_class", object_class |-> "amounts"]

\* C29: the resolvers of a row run in the order agency, bureau, account,
\* function, subfunction, object class, and a resolver that fails is followed
\* by the finally block and by no later resolver; what the earlier resolvers
\* of the failed row created stays in the store and in the caches; and a
\* later row of that run whose agency is cached is resolved, to the cached
\* agency.
C29_FailedRowKeepsEarlierEntities ==
    [][/\ pc \in DOMAIN StepAfter => pc' \in {StepAfter[pc], "row_finally"}
       /\ \A t \in DimensionTables : db[t] \subseteq db'[t]
       /\ runNo' = runNo =>
             \A c \in DOMAIN cache : \A k \in DOMAIN cache[c] :
                 k \in DOMAIN cache'[c] /\ cache'[c][k] = cache[c][k]
       /\ \A code \in DOMAIN cache.agency_cache :
             /\ (/\ pc = "row" /\ idx < Len(csv.rows) /\ hist.failures # {}
                 /\ Strip(Str(Row["OMB Agency Code"])) = code) => pc' = "agency"
             /\ (pc = "agency" /\ Strip(Str(Row["OMB Agency Code"])) = code) =>
                    pc' = "bureau" /\ loc'.agency = cache.agency_cache[code]]_vars

\* C30: for every loaded table, the standalone validator
\* (validate_objclass.validate_csv_structure) reports it valid exactly when
\* the parser's validate_csv_structure accepts its columns.
C30_ValidatorsAgree ==
    Returned("validate_objclass.validate_csv_structure") =>
        (call.ret <=> validate_csv_structure(call.arg.columns))

(***************************************************************************)
(* Properties of two runs side by side.                                    *)
(***************************************************************************)
\* The stored rows of a table that share their composite key with another
\* stored row.
RaceDuplicates(t) ==
    CASE t = "agencies" ->
           {x \in race.db[t] : \E y \in race.db[t] : y # x /\ y.omb_code = x.omb_code}
      [] t = "bureaus" ->
           {x \in race.db[t] : \E y \in race.db[t] :
               y # x /\ y.agency_id = x.agency_id /\ y.omb_code = x.omb_code}
      [] t = "accounts" ->
           {x \in race.db[t] : \E y \in race.db[t] :
               y # x /\ y.bureau_id = x.bureau_id /\ y.omb_account_code = x.omb_account_code}
      [] t = "budget_subfunctions" ->
           {x \in race.db[t] : \E y \in race.db[t] :
               y # x /\ y.function_id = x.function_id /\ y.code = x.code}
      [] OTHER ->
           {x \in race.db[t] : \E y \in race.db[t] : y # x /\ y.code = x.code}

\* C27: with two runs interleaved against one store, no two Agency rows, no
\* two BudgetFunction rows and no two ObjectClass rows share a code; a run
\* fails in a resolver only as the loser of such an insert, with the row of
\* that code stored by the other run, and never in the resolver of a Bureau,
\* Account or Subfunction, whose duplicates the store accepts.
C27_UniqueCodesRejectTheDuplicate ==
    /\ RaceDuplicates("agencies") = {}
    /\ RaceDuplicates("budget_functions") = {}
    /\ RaceDuplicates("object_classes") = {}
    /\ \A p \in Procs :
          race.procs[p].state = "failed" =>
              /\ race.procs[p].failed_at \in {"agency", "function", "object_class"}
              /\ race.procs[p].phase = "insert"
              /\ RaceCall(race.procs[p]).found # {}
              /\ \A e \in RaceCall(race.procs[p]).found :
                     \A c \in DOMAIN race.procs[p].cache :
                        \A k \in DOMAIN race.procs[p].cache[c] :
                           race.procs[p].cache[c][k] # e.id

\* The store holds two Bureau rows with one (agency, code), two Account rows
\* with one (bureau, code) and two Subfunction rows with one (function,
\* code), and one run has failed as the loser of an ObjectClass insert.
C27_Witness ==
    /\ RaceDuplicates("bureaus") # {}
    /\ RaceDuplicates("accounts") # {}
    /\ RaceDuplicates("budget_subfunctions") # {}
    /\ \E p \in Procs : /\ race.procs[p].state = "failed"
                         /\ race.procs[p].failed_at = "object_class"

====
